---- MODULE Spec2Model ----
(***************************************************************************)
(* Reliable downstream delivery of odoo_wex_proxy (src/app.py): the        *)
(* acknowledgment registry (_ACK_EVENTS guarded by _ACK_LOCK), the         *)
(* delivery worker _forward_with_ack, the /ack endpoint and the launch of  *)
(* a worker thread by /proxy.                                              *)
(*                                                                         *)
(* Every request is served by its own thread.  A thread slot t is idle     *)
(* until a request arrives in it; a /proxy request turns it into the       *)
(* delivery worker that /proxy starts, an /ack request into the handler    *)
(* of that call.  Threads interleave at the points where the code can be   *)
(* pre-empted with an effect on shared state: around the critical          *)
(* sections of _ACK_LOCK, around Event.wait / Event.set, and around the    *)
(* blocking calls (POST, sleep).                                           *)
(***************************************************************************)
EXTENDS Integers, Sequences, FiniteSets, TLC

\* ---- bounds of the model ----
MaxThreads == 3        \* request threads (workers and ack calls together)
MaxAttempts == 2       \* MAX_DOWNSTREAM ranges over 1..MaxAttempts
MaxBase == 3           \* DOWNSTREAM_RETRY_BASE_SECONDS ranges over 1..MaxBase (SpecBackoff)
JitterSteps == 2       \* random.uniform(-0.2, 0.2) is sampled at 0.2*j/JitterSteps

MaxTextLen == 2        \* an environment value is a text of at most MaxTextLen characters

\* ---- program constants ----
DefaultBase == 2       \* default of DOWNSTREAM_RETRY_BASE_SECONDS
DefaultMax == 5        \* default of MAX_DOWNSTREAM
DefaultAckTimeout == 10    \* default of ACK_TIMEOUT_SECONDS
DefaultPostTimeout == 10   \* default of DOWNSTREAM_POST_TIMEOUT_SECONDS

Threads == 1..MaxThreads
Keys == {"p1", "p2"}                     \* payment ids in use
None == "None"                           \* Python None (absent JSON field, unset env)
KeyVals == Keys \cup {None}              \* what a JSON field of /ack may hold
Tokens == {None, "secret", "wrong"}      \* auth tokens a request may carry
NoEvent == 0                             \* _ACK_EVENTS.get() returning None
Events == 1..MaxThreads                  \* Event instances (each thread creates at most one)

VARIABLES
    environ,                        \* os.environ: the text configured under each name (Unset: absent)
    MAX_DOWNSTREAM,                 \* config, fixed after load
    ACK_TIMEOUT_SECONDS,            \* config, fixed after load
    DOWNSTREAM_RETRY_BASE_SECONDS,  \* config, fixed after load
    DOWNSTREAM_POST_TIMEOUT_SECONDS, \* config, fixed after load
    AUTH_TOKEN,                     \* config, fixed after load
    ACK_EVENTS,                     \* _ACK_EVENTS: payment_id -> Event instance (NoEvent: absent)
    ACK_LOCK,                       \* _ACK_LOCK: 0 free, else the thread holding it
    flag,                           \* Event._flag of every instance
    nEvents,                        \* number of Event() instances constructed so far
    pc,                             \* position of each thread
    payment_id,                     \* the thread's payment_id
    ev,                             \* the thread's local ev
    attempt,                        \* worker: loop variable attempt
    delivery_id,                    \* worker: delivery_id
    sleep_s,                        \* worker: sleep_s of the backoff sleep in progress (0: not sleeping)
    sent,                           \* worker: (delivery_id, attempt) of every POST issued
    resp,                           \* ack handler: HTTP status returned (0: none yet)
    presp,                          \* /proxy handler that launched the thread: status returned (0: none yet)
    \* ---- history (recorded, never read by the program) ----
    acked,                          \* per key: an /ack for it has returned 200
    gen,                            \* per key: number of entries removed so far
    genAt,                          \* per thread: gen[payment_id] when it obtained ev
    gotSet,                         \* worker: ev was already set when obtained
    ackAt,                          \* worker: attempt during whose wait an ack for its key returned 200
    waited,                         \* worker: number of ev.wait calls that have returned
    slept,                          \* worker: number of backoff sleeps that have returned
    orphan,                         \* Events created by an ack after a worker of that key had terminated
    errors,                         \* worker: number of its POSTs that raised, where counted (SpecPost)
    ackSleep                        \* worker: attempt during whose backoff sleep the first ack for its key
                                    \* returned 200, the worker being the only one of that key (0: none)

cfgvars == <<environ, MAX_DOWNSTREAM, ACK_TIMEOUT_SECONDS, DOWNSTREAM_RETRY_BASE_SECONDS,
            DOWNSTREAM_POST_TIMEOUT_SECONDS, AUTH_TOKEN>>
regvars == <<ACK_EVENTS, ACK_LOCK, flag, nEvents>>
wvars == <<attempt, delivery_id, sleep_s, sent>>
hvars == <<acked, gen, genAt, gotSet, ackAt, waited, slept, orphan, errors, ackSleep>>
vars == <<environ, MAX_DOWNSTREAM, ACK_TIMEOUT_SECONDS, DOWNSTREAM_RETRY_BASE_SECONDS,
          DOWNSTREAM_POST_TIMEOUT_SECONDS, AUTH_TOKEN,
          ACK_EVENTS, ACK_LOCK, flag, nEvents, pc, payment_id, ev,
          attempt, delivery_id, sleep_s, sent, resp, presp,
          acked, gen, genAt, gotSet, ackAt, waited, slept, orphan, errors, ackSleep>>

WorkerPcs == {"w_start", "w_goc", "post", "wait", "sleep", "clear_ack", "clear_ex",
              "ACKNOWLEDGED", "EXHAUSTED"}
Terminal == {"ACKNOWLEDGED", "EXHAUSTED"}
AckPcs == {"a_start", "a_goc", "a_set", "a_done"}

IsWorker(t) == pc[t] \in WorkerPcs
IsAck(t) == pc[t] \in AckPcs
\* a worker past line 86, still executing _forward_with_ack
Running(t) == pc[t] \in {"post", "wait", "sleep", "clear_ack", "clear_ex"}
\* a thread whose local ev holds the result of _get_or_create_ack_event
HoldsEv(t) == Running(t) \/ pc[t] \in Terminal \/ pc[t] = "a_set"
              \/ (pc[t] = "a_done" /\ resp[t] = 200)

\* Python truthiness of a string-or-None value
Truthy(x) == x # None /\ x # ""

Max(a, b) == IF a >= b THEN a ELSE b

RECURSIVE Pow2(_)
Pow2(n) == IF n <= 0 THEN 1 ELSE 2 * Pow2(n - 1)

\* ---- configuration (lines 27-42) ----
EnvNames == {"MAX_DOWNSTREAM", "ACK_TIMEOUT_SECONDS", "DOWNSTREAM_RETRY_BASE_SECONDS",
             "DOWNSTREAM_POST_TIMEOUT_SECONDS"}
\* a text is a sequence of characters; Unset is os.getenv finding no such name
Unset == <<None>>
Digits == <<"0", "1", "2", "3", "4", "5", "6", "7", "8", "9">>
\* the characters configured texts are drawn from: a sign, two digits, a letter
EnvChars == {"-", "0", "1", "x"}
EnvTexts == UNION {[1..n -> EnvChars] : n \in 0..MaxTextLen}

IsDigit(c) == \E i \in 1..10 : Digits[i] = c
DigitVal(c) == CHOOSE i \in 0..9 : Digits[i + 1] = c

\* str(n) for n >= 0: how the defaults '5', '10', '2', '10' are written
RECURSIVE DecimalText(_)
DecimalText(n) ==
    IF n < 10 THEN <<Digits[n + 1]>>
    ELSE Append(DecimalText(n \div 10), Digits[(n % 10) + 1])

\* int(s) of Python on a text of signs, digits and letters: an optional sign
\* followed by one or more digits, anything else raises ValueError
Unsigned(s) == IF s # <<>> /\ s[1] \in {"-", "+"} THEN Tail(s) ELSE s
IntValid(s) == Unsigned(s) # <<>> /\ \A i \in 1..Len(Unsigned(s)) : IsDigit(Unsigned(s)[i])
RECURSIVE DigitsValue(_)
DigitsValue(d) ==
    IF d = <<>> THEN 0
    ELSE 10 * DigitsValue(SubSeq(d, 1, Len(d) - 1)) + DigitVal(d[Len(d)])
IntValue(s) == IF s[1] = "-" THEN -DigitsValue(Unsigned(s)) ELSE DigitsValue(Unsigned(s))

\* os.getenv(name, default): the default replaces an absent name only
getenv(env, name, default) == IF env[name] = Unset THEN default ELSE env[name]
\* `x or default`: the default replaces the empty text
OrDefault(x, default) == IF x = <<>> THEN default ELSE x
\* try: int(os.getenv(name, 'd') or 'd')  except ValueError: d
load_int(env, name, default) ==
    LET s == OrDefault(getenv(env, name, DecimalText(default)), DecimalText(default))
    IN  IF IntValid(s) THEN IntValue(s) ELSE default

\* the environment in which only `name` is configured, as `text`
OnlySet(name, text) == [n \in EnvNames |-> IF n = name THEN text ELSE Unset]

\* ---- backoff policy (lines 110-116) ----
\* int() of Python truncates toward zero
IntTrunc(n, d) == IF n >= 0 THEN n \div d ELSE -((-n) \div d)

\* lines 112-114: base = B * 2**(attempt-1); jitter = base * uniform(-0.2, 0.2);
\* sleep_s = max(1, int(base + jitter)).  uniform(-0.2, 0.2) = j / (5*JitterSteps)
\* for j in -JitterSteps..JitterSteps, so base + jitter = base*(5*JitterSteps + j)/(5*JitterSteps).
backoff_base(b, a) == b * Pow2(a - 1)
\* mutant: the minimum of one second is not applied
backoff_sleep_s_NoMin(b, a, j) ==
    IntTrunc(backoff_base(b, a) * (5 * JitterSteps + j), 5 * JitterSteps)
backoff_sleep_s(b, a, j) ==
    Max(1, IntTrunc(backoff_base(b, a) * (5 * JitterSteps + j), 5 * JitterSteps))

\* ---- the registry (lines 56-69) ----
\* mutant: the critical sections are entered without taking the lock
LockFree_NoLock == TRUE
\* `with _ACK_LOCK:` is entered only when no thread holds the lock
LockFree == ACK_LOCK = 0
\* mutant: the lock is not released on leaving the critical section
Released_Kept(t) == t
\* leaving the `with` block releases the lock
Released(t) == 0

\* mutant: a new Event is constructed and stored on every call
NeedsCreate_Always(e) == TRUE
\* line 62: `if ev is None`
NeedsCreate(e) == e = NoEvent

\* lines 60-61: enter the critical section and read the entry
goc_lookup(t) ==
    /\ LockFree
    /\ ACK_LOCK' = t
    /\ ev' = [ev EXCEPT ![t] = ACK_EVENTS[payment_id[t]]]

\* the Event instance _get_or_create_ack_event returns to thread t (line 65)
goc_result(t) == IF NeedsCreate(ev[t]) THEN nEvents + 1 ELSE ev[t]

\* lines 62-65: create and store when absent, leave the critical section, return ev
goc_store(t) ==
    /\ ev' = [ev EXCEPT ![t] = goc_result(t)]
    /\ IF NeedsCreate(ev[t])
       THEN /\ nEvents' = nEvents + 1
            /\ flag' = [flag EXCEPT ![nEvents + 1] = FALSE]
            /\ ACK_EVENTS' = [ACK_EVENTS EXCEPT ![payment_id[t]] = nEvents + 1]
       ELSE UNCHANGED <<nEvents, flag, ACK_EVENTS>>
    /\ ACK_LOCK' = Released(t)
    /\ genAt' = [genAt EXCEPT ![t] = gen[payment_id[t]]]

\* lines 67-69: _clear_ack_event, one critical section
clear_ack_event(t) ==
    /\ LockFree
    /\ ACK_EVENTS' = [ACK_EVENTS EXCEPT ![payment_id[t]] = NoEvent]
    /\ gen' = [gen EXCEPT ![payment_id[t]] =
                  IF ACK_EVENTS[payment_id[t]] # NoEvent THEN @ + 1 ELSE @]
    /\ UNCHANGED <<ACK_LOCK, flag, nEvents>>

\* ---- request arrival: slots are taken in order ----
SlotFree(t) == pc[t] = "idle" /\ \A u \in Threads : u < t => pc[u] # "idle"

\* payment ids are opaque: the first request to name one names "p1"
KeyOrder == <<"p1", "p2">>
UsedKeys == {payment_id[t] : t \in Threads} \cap Keys
FreshOK(k) == \A i \in 1..Len(KeyOrder) :
                 KeyOrder[i] = k => \A j \in 1..(i - 1) : KeyOrder[j] \in UsedKeys

\* ---- /proxy, lines 270-279: start the delivery thread for payment_id k ----
\* lines 273-274: Thread(target=_forward_with_ack, args=(result, k)).start()
Thread_start(t, k) ==
    /\ pc' = [pc EXCEPT ![t] = "w_start"]
    /\ payment_id' = [payment_id EXCEPT ![t] = k]

\* the whole tail of the handler: the thread is started and 200 is returned
proxy(t, k) ==
    /\ SlotFree(t)
    /\ FreshOK(k)
    /\ Thread_start(t, k)
    /\ presp' = [presp EXCEPT ![t] = 200]
    /\ UNCHANGED <<cfgvars, regvars, ev, wvars, resp, hvars>>

\* The same tail step by step, the handler interleaved with the thread it started.
\* lines 271-274: the thread is started, the handler has not returned yet
proxy_launch(t, k) ==
    /\ SlotFree(t)
    /\ FreshOK(k)
    /\ Thread_start(t, k)
    /\ UNCHANGED <<cfgvars, regvars, ev, wvars, resp, presp, hvars>>

\* lines 271-276: Thread.start raises (no thread can be created); logged, no worker exists
proxy_start_fails(t, k) ==
    /\ SlotFree(t)
    /\ FreshOK(k)
    /\ pc' = [pc EXCEPT ![t] = "no_thread"]
    /\ payment_id' = [payment_id EXCEPT ![t] = k]
    /\ UNCHANGED <<cfgvars, regvars, ev, wvars, resp, presp, hvars>>

\* the handler of the /proxy request of slot t stands before line 279
Launched(t) == (IsWorker(t) \/ pc[t] = "no_thread") /\ presp[t] = 0
\* mutant: the handler joins the thread before it returns
CanRespond_Join(t) == pc[t] \in Terminal \cup {"no_thread"}
\* line 279 follows the try block unconditionally
CanRespond(t) == TRUE

\* line 279: return jsonify(result), 200
proxy_respond(t) ==
    /\ Launched(t)
    /\ CanRespond(t)
    /\ presp' = [presp EXCEPT ![t] = 200]
    /\ UNCHANGED <<cfgvars, regvars, pc, payment_id, ev, wvars, resp, hvars>>

\* ---- _forward_with_ack (lines 81-119) ----
\* line 87: a fresh uuid4 for this call (result carries no _delivery_id)
mint_delivery_id(t) == t

\* line 90: range(1, attempts + 1) has a first element
LoopEntered == 1 <= MAX_DOWNSTREAM
\* mutant: off by one, the loop runs to attempts + 1
HasNextAttempt_OffByOne(a) == a <= MAX_DOWNSTREAM
\* mutant: the test of line 110 is missing, every timed-out wait is followed by a sleep
HasNextAttempt_Always(a) == TRUE
\* line 110: `if attempt < attempts` (and the loop then continues)
HasNextAttempt(a) == a < MAX_DOWNSTREAM
\* the loop variable after one more iteration
NextAttempt(a) == a + 1

\* line 86, first half
w_lookup(t) ==
    /\ pc[t] = "w_start"
    /\ goc_lookup(t)
    /\ pc' = [pc EXCEPT ![t] = "w_goc"]
    /\ UNCHANGED <<cfgvars, ACK_EVENTS, flag, nEvents, payment_id, wvars, resp, presp, hvars>>

\* line 86, second half, and lines 87-90
w_store(t) ==
    /\ pc[t] = "w_goc"
    /\ goc_store(t)
    /\ gotSet' = [gotSet EXCEPT ![t] = ~NeedsCreate(ev[t]) /\ flag[ev[t]]]
    /\ delivery_id' = [delivery_id EXCEPT ![t] = mint_delivery_id(t)]
    /\ IF LoopEntered
       THEN /\ attempt' = [attempt EXCEPT ![t] = 1]
            /\ pc' = [pc EXCEPT ![t] = "post"]
       ELSE /\ attempt' = attempt
            /\ pc' = [pc EXCEPT ![t] = "clear_ex"]
    /\ UNCHANGED <<cfgvars, payment_id, sleep_s, sent, resp, presp, acked, gen, ackAt,
                   waited, slept, orphan, errors, ackSleep>>

\* mutant: `attempts` written for `attempt`
enriched_Attempts(t) == <<delivery_id[t], MAX_DOWNSTREAM>>
\* lines 92-94: what the payload of this attempt carries
enriched(t) == <<delivery_id[t], attempt[t]>>

\* mutant: the result of ev.wait is lost, every wait counts as timed out
ack_received_Never(t) == FALSE
\* mutant: the timeout is taken for the signal, every wait counts as acknowledged
ack_received_Always(t) == TRUE
\* line 105: ev.wait(timeout) returns True iff the flag is set before the timeout expires
ack_received(t) == flag[ev[t]]

\* lines 92-100 and 104: the POST of this attempt is issued and a response comes back
post_ok(t) ==
    /\ pc[t] = "post"
    /\ sent' = [sent EXCEPT ![t] = Append(@, enriched(t))]
    /\ pc' = [pc EXCEPT ![t] = "wait"]
    /\ UNCHANGED <<cfgvars, regvars, payment_id, ev, attempt, delivery_id, sleep_s, resp, presp, hvars>>

\* mutant: the exception is not caught inside the loop, the worker gives up
after_post_raises_Abort == "clear_ex"
\* lines 101-104: the except clause logs the error and falls through to the wait
after_post_raises == "wait"

\* lines 92-104: requests.post raises (timeout, connection error); the handler logs it
post_raises(t) ==
    /\ pc[t] = "post"
    /\ sent' = [sent EXCEPT ![t] = Append(@, enriched(t))]
    /\ pc' = [pc EXCEPT ![t] = after_post_raises]
    /\ UNCHANGED <<cfgvars, regvars, payment_id, ev, attempt, delivery_id, sleep_s, resp, presp, hvars>>

\* the same step with the error of line 102 counted
post_raises_logged(t) ==
    /\ pc[t] = "post"
    /\ sent' = [sent EXCEPT ![t] = Append(@, enriched(t))]
    /\ pc' = [pc EXCEPT ![t] = after_post_raises]
    /\ errors' = [errors EXCEPT ![t] = @ + 1]
    /\ UNCHANGED <<cfgvars, regvars, payment_id, ev, attempt, delivery_id, sleep_s, resp, presp,
                   acked, gen, genAt, gotSet, ackAt, waited, slept, orphan, ackSleep>>

\* line 105 returns True, line 106
wait_acked(t) ==
    /\ pc[t] = "wait"
    /\ ack_received(t)
    /\ pc' = [pc EXCEPT ![t] = "clear_ack"]
    /\ waited' = [waited EXCEPT ![t] = @ + 1]
    /\ UNCHANGED <<cfgvars, regvars, payment_id, ev, wvars, resp, presp,
                   acked, gen, genAt, gotSet, ackAt, slept, orphan, errors, ackSleep>>

\* line 105 returns False (the timeout expired with the flag unset); lines 110-115 or loop exit
wait_timeout(t) ==
    /\ pc[t] = "wait"
    /\ ~ack_received(t)
    /\ IF HasNextAttempt(attempt[t])
       THEN /\ \E j \in (-JitterSteps)..JitterSteps :
                 sleep_s' = [sleep_s EXCEPT ![t] =
                     backoff_sleep_s(DOWNSTREAM_RETRY_BASE_SECONDS, attempt[t], j)]
            /\ pc' = [pc EXCEPT ![t] = "sleep"]
       ELSE /\ sleep_s' = sleep_s
            /\ pc' = [pc EXCEPT ![t] = "clear_ex"]
    /\ waited' = [waited EXCEPT ![t] = @ + 1]
    /\ UNCHANGED <<cfgvars, regvars, payment_id, ev, attempt, delivery_id, sent, resp, presp,
                   acked, gen, genAt, gotSet, ackAt, slept, orphan, errors, ackSleep>>

\* line 116 returns; the loop takes the next attempt
sleep_done(t) ==
    /\ pc[t] = "sleep"
    /\ attempt' = [attempt EXCEPT ![t] = NextAttempt(@)]
    /\ sleep_s' = [sleep_s EXCEPT ![t] = 0]
    /\ pc' = [pc EXCEPT ![t] = "post"]
    /\ slept' = [slept EXCEPT ![t] = @ + 1]
    /\ UNCHANGED <<cfgvars, regvars, payment_id, ev, delivery_id, sent, resp, presp,
                   acked, gen, genAt, gotSet, ackAt, waited, orphan, errors, ackSleep>>

\* lines 107-108: ACK received, clear and return
clear_acked(t) ==
    /\ pc[t] = "clear_ack"
    /\ clear_ack_event(t)
    /\ pc' = [pc EXCEPT ![t] = "ACKNOWLEDGED"]
    /\ UNCHANGED <<cfgvars, payment_id, ev, wvars, resp, presp, acked, genAt, gotSet, ackAt,
                   waited, slept, orphan, errors, ackSleep>>

\* lines 118-119: giving up, clear and fall off the end
clear_exhausted(t) ==
    /\ pc[t] = "clear_ex"
    /\ clear_ack_event(t)
    /\ pc' = [pc EXCEPT ![t] = "EXHAUSTED"]
    /\ UNCHANGED <<cfgvars, payment_id, ev, wvars, resp, presp, acked, genAt, gotSet, ackAt,
                   waited, slept, orphan, errors, ackSleep>>

forward_with_ack(t) ==
    \/ w_lookup(t)
    \/ w_store(t)
    \/ post_ok(t)
    \/ post_raises(t)
    \/ wait_acked(t)
    \/ wait_timeout(t)
    \/ sleep_done(t)
    \/ clear_acked(t)
    \/ clear_exhausted(t)

\* ---- /ack (lines 121-145) ----
\* a request: body is invalid JSON, valid JSON that is no object, or an object
AckRequests ==
    [body : {"badjson"}, body_token : {None}, header_token : {None},
     payment_id : {None}, x_name : {None}]
    \cup [body : {"nondict"}, body_token : {None}, header_token : Tokens,
          payment_id : {None}, x_name : {None}]
    \cup [body : {"dict"}, body_token : Tokens, header_token : Tokens,
          payment_id : KeyVals, x_name : KeyVals]

\* lines 71-79
verify_auth_from_body_or_header(req) ==
    LET t1 == IF req.body = "dict" THEN req.body_token ELSE None
        token == IF ~Truthy(t1) THEN req.header_token ELSE t1
    IN  ~(Truthy(AUTH_TOKEN) /\ token # AUTH_TOKEN)

\* line 137: data.get('payment_id') or data.get('x_name')
ack_payment_id(req) == IF Truthy(req.payment_id) THEN req.payment_id ELSE req.x_name

\* the status of a request that does not reach line 142 (0: it does reach it)
\* 400 line 131, 401 line 135, 500 data.get on a non-dict at line 137, 400 line 140
ack_reject(req) ==
    IF req.body = "badjson" THEN 400
    ELSE IF ~verify_auth_from_body_or_header(req) THEN 401
    ELSE IF req.body # "dict" THEN 500
    ELSE IF ~Truthy(ack_payment_id(req)) THEN 400
    ELSE 0

\* mutant: the `return` is missing, the handler falls through to line 142
after_reject_FallThrough == "a_start"
\* lines 131, 135, 140: the error response is returned, the call is over
after_reject == "a_done"

\* lines 127-140: parse, authorize, extract the key
ack(t, req) ==
    /\ SlotFree(t)
    /\ ack_reject(req) = 0 => FreshOK(ack_payment_id(req))
    /\ IF ack_reject(req) # 0
       THEN /\ pc' = [pc EXCEPT ![t] = after_reject]
            /\ resp' = [resp EXCEPT ![t] = ack_reject(req)]
            /\ payment_id' = payment_id
       ELSE /\ pc' = [pc EXCEPT ![t] = "a_start"]
            /\ payment_id' = [payment_id EXCEPT ![t] = ack_payment_id(req)]
            /\ resp' = resp
    /\ UNCHANGED <<cfgvars, regvars, ev, wvars, presp, hvars>>

\* line 142, first half
ack_lookup(t) ==
    /\ pc[t] = "a_start"
    /\ goc_lookup(t)
    /\ pc' = [pc EXCEPT ![t] = "a_goc"]
    /\ UNCHANGED <<cfgvars, ACK_EVENTS, flag, nEvents, payment_id, wvars, resp, presp, hvars>>

\* line 142, second half
ack_store(t) ==
    /\ pc[t] = "a_goc"
    /\ goc_store(t)
    /\ orphan' = IF NeedsCreate(ev[t])
                    /\ \E w \in Threads : pc[w] \in Terminal /\ payment_id[w] = payment_id[t]
                 THEN orphan \cup {nEvents + 1}
                 ELSE orphan
    /\ pc' = [pc EXCEPT ![t] = "a_set"]
    /\ UNCHANGED <<cfgvars, payment_id, wvars, resp, presp, acked, gen, gotSet, ackAt, waited,
                   slept, errors, ackSleep>>

\* lines 143-145: ev.set() and the 200 response
ack_set(t) ==
    /\ pc[t] = "a_set"
    /\ flag' = [flag EXCEPT ![ev[t]] = TRUE]
    /\ resp' = [resp EXCEPT ![t] = 200]
    /\ pc' = [pc EXCEPT ![t] = "a_done"]
    /\ acked' = [acked EXCEPT ![payment_id[t]] = TRUE]
    /\ ackAt' = [w \in Threads |->
                    IF pc[w] = "wait" /\ payment_id[w] = payment_id[t] /\ ackAt[w] = 0
                    THEN attempt[w] ELSE ackAt[w]]
    /\ ackSleep' = [w \in Threads |->
                    IF /\ pc[w] = "sleep" /\ payment_id[w] = payment_id[t]
                       /\ ~acked[payment_id[t]]
                       /\ \A u \in Threads \ {w} :
                             IsWorker(u) => payment_id[u] # payment_id[w]
                    THEN attempt[w] ELSE ackSleep[w]]
    /\ UNCHANGED <<cfgvars, ACK_EVENTS, ACK_LOCK, nEvents, payment_id, ev, wvars, presp,
                   gen, genAt, gotSet, waited, slept, orphan, errors>>

ack_handler(t) == ack_lookup(t) \/ ack_store(t) \/ ack_set(t)

\* ---- the system ----
InitState ==
    /\ AUTH_TOKEN \in {None, "secret"}
    /\ ACK_EVENTS = [k \in Keys |-> NoEvent]
    /\ ACK_LOCK = 0
    /\ flag = [e \in Events |-> FALSE]
    /\ nEvents = 0
    /\ pc = [t \in Threads |-> "idle"]
    /\ payment_id = [t \in Threads |-> None]
    /\ ev = [t \in Threads |-> NoEvent]
    /\ attempt = [t \in Threads |-> 0]
    /\ delivery_id = [t \in Threads |-> 0]
    /\ sleep_s = [t \in Threads |-> 0]
    /\ sent = [t \in Threads |-> <<>>]
    /\ resp = [t \in Threads |-> 0]
    /\ presp = [t \in Threads |-> 0]
    /\ acked = [k \in Keys |-> FALSE]
    /\ gen = [k \in Keys |-> 0]
    /\ genAt = [t \in Threads |-> 0]
    /\ gotSet = [t \in Threads |-> FALSE]
    /\ ackAt = [t \in Threads |-> 0]
    /\ waited = [t \in Threads |-> 0]
    /\ slept = [t \in Threads |-> 0]
    /\ orphan = {}
    /\ errors = [t \in Threads |-> 0]
    /\ ackSleep = [t \in Threads |-> 0]

\* lines 27-42: the four controls as loaded from the environment
LoadConfig ==
    /\ MAX_DOWNSTREAM = load_int(environ, "MAX_DOWNSTREAM", DefaultMax)
    /\ ACK_TIMEOUT_SECONDS = load_int(environ, "ACK_TIMEOUT_SECONDS", DefaultAckTimeout)
    /\ DOWNSTREAM_RETRY_BASE_SECONDS =
           load_int(environ, "DOWNSTREAM_RETRY_BASE_SECONDS", DefaultBase)
    /\ DOWNSTREAM_POST_TIMEOUT_SECONDS =
           load_int(environ, "DOWNSTREAM_POST_TIMEOUT_SECONDS", DefaultPostTimeout)

\* MAX_DOWNSTREAM is configured as 1..MaxAttempts, the other controls are left unset
Init ==
    /\ \E m \in 1..MaxAttempts : environ = OnlySet("MAX_DOWNSTREAM", DecimalText(m))
    /\ LoadConfig
    /\ InitState

Next ==
    \/ \E t \in Threads, k \in Keys : proxy(t, k)
    \/ \E t \in Threads, req \in AckRequests : ack(t, req)
    \/ \E t \in Threads : forward_with_ack(t)
    \/ \E t \in Threads : ack_handler(t)

Spec == Init /\ [][Next]_vars

\* The backoff policy over its inputs: a delivery that is never acknowledged,
\* for every base interval in 1..MaxBase and every jitter sample.
InitBackoff ==
    /\ \E m \in 1..(MaxAttempts + 1), b \in 1..MaxBase :
          environ = [OnlySet("MAX_DOWNSTREAM", DecimalText(m))
                        EXCEPT !["DOWNSTREAM_RETRY_BASE_SECONDS"] = DecimalText(b)]
    /\ LoadConfig
    /\ InitState

NextBackoff ==
    \/ proxy(1, "p1")
    \/ w_lookup(1)
    \/ w_store(1)
    \/ post_ok(1)
    \/ post_raises(1)
    \/ wait_timeout(1)
    \/ sleep_done(1)
    \/ clear_exhausted(1)

SpecBackoff == InitBackoff /\ [][NextBackoff]_vars

\* The configuration loader over its inputs: one control at a time is configured
\* as any text of at most MaxTextLen characters (or left unset), and one delivery
\* that is never acknowledged runs under the loaded values.
InitConfig ==
    /\ \E n \in EnvNames, s \in EnvTexts \cup {Unset} : environ = OnlySet(n, s)
    /\ LoadConfig
    /\ InitState

SpecConfig == InitConfig /\ [][NextBackoff]_vars

\* Threads are scheduled fairly: a thread that can take its next step takes it.
\* Every blocking call of a worker is bounded (POST timeout, wait timeout, sleep).
\* Requests arrive whenever the environment sends them: no fairness.
Fairness ==
    \A t \in Threads : WF_vars(forward_with_ack(t)) /\ WF_vars(ack_handler(t))

FairSpec == Spec /\ Fairness

\* The launch of a delivery, the /proxy handler interleaved with the worker it
\* started.  The deliveries all carry the payment id "p1", so that they meet in
\* the registry; the ack calls are those that pass validation (the others touch
\* nothing a worker or a handler reads).
NextLaunch ==
    \/ \E t \in Threads : proxy_launch(t, "p1")
    \/ \E t \in Threads : proxy_start_fails(t, "p1")
    \/ \E t \in Threads : proxy_respond(t)
    \/ \E t \in Threads, req \in AckRequests : ack_reject(req) = 0 /\ ack(t, req)
    \/ \E t \in Threads : forward_with_ack(t)
    \/ \E t \in Threads : ack_handler(t)

SpecLaunch == Init /\ [][NextLaunch]_vars

\* The deliveries with the outcome of every POST on record: a POST that raises
\* is counted in errors.  The deliveries all carry the payment id "p1", the ack
\* calls are those that pass validation.
NextPost ==
    \/ \E t \in Threads : proxy(t, "p1")
    \/ \E t \in Threads, req \in AckRequests : ack_reject(req) = 0 /\ ack(t, req)
    \/ \E t \in Threads :
          \/ w_lookup(t)
          \/ w_store(t)
          \/ post_ok(t)
          \/ post_raises_logged(t)
          \/ wait_acked(t)
          \/ wait_timeout(t)
          \/ sleep_done(t)
          \/ clear_acked(t)
          \/ clear_exhausted(t)
    \/ \E t \in Threads : ack_handler(t)

SpecPost == Init /\ [][NextPost]_vars

\* ---------------------------------------------------------------------------
\* C1: every started worker eventually terminates, in exactly one of
\* ACKNOWLEDGED and EXHAUSTED: it reaches one of them (never neither) and,
\* once there, stays there (never both), for every MAX_DOWNSTREAM >= 1 and
\* every interleaving with ack calls and other workers, under fair scheduling.
C1_Terminates ==
    /\ \A t \in Threads : (pc[t] = "w_start") ~> (pc[t] \in Terminal)
    /\ [][\A t \in Threads : pc[t] \in Terminal => pc'[t] = pc[t]]_vars

C1_Witness ==
    /\ MAX_DOWNSTREAM >= 2
    /\ \E t, u \in Threads : pc[t] = "ACKNOWLEDGED" /\ pc[u] = "EXHAUSTED"

\* ---------------------------------------------------------------------------
\* C2: if an ack for a worker's payment_id returns 200 while the worker is in
\* the ack wait of attempt k (ackAt = k), the worker leaves that wait only as
\* acknowledged: it never times out, sleeps or sends attempt k+1, and it ends
\* ACKNOWLEDGED, whatever other workers and ack calls do.
C2_AckStopsRetries ==
    \A t \in Threads :
        ackAt[t] # 0 =>
            /\ pc[t] \in {"wait", "clear_ack", "ACKNOWLEDGED"}
            /\ attempt[t] = ackAt[t]
            /\ Len(sent[t]) = ackAt[t]

\* ---------------------------------------------------------------------------
\* C3: a worker never sends more than MAX_DOWNSTREAM attempts; a worker that
\* has terminated while no ack for its payment_id was ever accepted has sent
\* exactly MAX_DOWNSTREAM attempts and is EXHAUSTED; and the step into
\* EXHAUSTED leaves no entry for its payment_id in the registry.
C3_AttemptBudget ==
    /\ [](\A t \in Threads : Len(sent[t]) <= MAX_DOWNSTREAM)
    /\ [](\A t \in Threads :
            (pc[t] \in Terminal /\ ~acked[payment_id[t]]) =>
                (pc[t] = "EXHAUSTED" /\ Len(sent[t]) = MAX_DOWNSTREAM))
    /\ [][\A t \in Threads :
            (pc[t] # "EXHAUSTED" /\ pc'[t] = "EXHAUSTED") =>
                ACK_EVENTS'[payment_id[t]] = NoEvent]_vars

C3_Witness ==
    \E t \in Threads :
        /\ pc[t] = "EXHAUSTED"
        /\ ~acked[payment_id[t]]
        /\ MAX_DOWNSTREAM = MaxAttempts
        /\ Len(sent[t]) = MaxAttempts
        /\ ACK_EVENTS[payment_id[t]] = NoEvent

\* ---------------------------------------------------------------------------
\* C4: whenever a worker executes _clear_ack_event on termination, the entry
\* it removes is the Event it obtained at its start, and no other worker that
\* is still going to wait on that Event is running.
C4_OwnerRemoves ==
    [][\A t \in Threads :
          (pc[t] \in {"clear_ack", "clear_ex"} /\ pc'[t] \in Terminal) =>
              /\ ACK_EVENTS[payment_id[t]] = ev[t]
              /\ \A u \in Threads \ {t} :
                    pc[u] \in {"post", "wait", "sleep"} => ev[u] # ev[t]]_vars

\* ---------------------------------------------------------------------------
\* C5: an Event created by an ack that arrived after a worker of that
\* payment_id had terminated stays in the registry for ever and is never the
\* Event a worker holds, also when a new delivery is launched for that id.
C5_OrphanUnobserved ==
    \A e \in orphan :
        /\ \E k \in Keys : ACK_EVENTS[k] = e
        /\ \A t \in Threads : (IsWorker(t) /\ HoldsEv(t)) => ev[t] # e

\* ---------------------------------------------------------------------------
\* C6: a worker that obtains at its start an Event that is already set (an ack
\* was accepted before the worker existed and the entry is still registered)
\* sends attempt 1, its wait returns True without a timeout, and it ends
\* ACKNOWLEDGED with no backoff sleep and no attempt 2.
C6_PreAcked ==
    \A t \in Threads :
        (IsWorker(t) /\ gotSet[t]) =>
            /\ pc[t] \in {"post", "wait", "clear_ack", "ACKNOWLEDGED"}
            /\ attempt[t] = 1
            /\ slept[t] = 0
            /\ sleep_s[t] = 0
            /\ Len(sent[t]) = (IF pc[t] = "post" THEN 0 ELSE 1)
            /\ waited[t] = (IF pc[t] \in {"post", "wait"} THEN 0 ELSE 1)

\* the only worker there has ever been found the ack of its payment_id waiting
C6_Witness ==
    \E t \in Threads :
        /\ pc[t] = "ACKNOWLEDGED"
        /\ gotSet[t]
        /\ orphan = {}
        /\ \A u \in Threads \ {t} : ~IsWorker(u)
        /\ MAX_DOWNSTREAM = MaxAttempts

\* ---------------------------------------------------------------------------
\* C7: the registry holds at most one Event per payment_id and an Event under
\* at most one payment_id, and all calls _get_or_create_ack_event(K) between
\* two removals of K (same gen) return the same Event instance.
C7_SameInstance ==
    /\ \A k1, k2 \in Keys :
          (k1 # k2 /\ ACK_EVENTS[k1] # NoEvent) => ACK_EVENTS[k1] # ACK_EVENTS[k2]
    /\ \A t, u \in Threads :
          (HoldsEv(t) /\ HoldsEv(u) /\ payment_id[t] = payment_id[u]
              /\ genAt[t] = genAt[u]) => ev[t] = ev[u]
    /\ \A t \in Threads :
          (HoldsEv(t) /\ genAt[t] = gen[payment_id[t]]) => ACK_EVENTS[payment_id[t]] = ev[t]

\* a worker and two ack calls all hold the one Event of their payment_id
C7_Witness ==
    \E k \in Keys :
        /\ \A t \in Threads : HoldsEv(t) /\ payment_id[t] = k /\ ev[t] = ACK_EVENTS[k]
        /\ \E t \in Threads : IsWorker(t)
        /\ \E t \in Threads : IsAck(t)

\* ---------------------------------------------------------------------------
\* C8: the attempts a worker has sent are numbered 1, 2, 3, ... without gap
\* or repeat, all carry the delivery id minted at its start (no two workers
\* share one), and attempt k+1 is sent only after k waits and k sleeps ended.
C8_Sequential ==
    \A t \in Threads :
        IsWorker(t) =>
            /\ \A i \in 1..Len(sent[t]) : sent[t][i] = <<delivery_id[t], i>>
            /\ \A u \in Threads \ {t} :
                  (Len(sent[t]) > 0 /\ Len(sent[u]) > 0) => sent[t][1][1] # sent[u][1][1]
            /\ Len(sent[t]) > 0 =>
                  /\ waited[t] >= Len(sent[t]) - 1
                  /\ slept[t] >= Len(sent[t]) - 1

C8_Witness ==
    \E t \in Threads :
        /\ Len(sent[t]) = MaxAttempts
        /\ MaxAttempts >= 2
        /\ \E u \in Threads \ {t} : Len(sent[u]) >= 1

\* ---------------------------------------------------------------------------
\* C9 as stated: the delay slept after attempt a lies in
\* [max(1, base*2^(a-1)*0.8), base*2^(a-1)*1.2]   (times 5 to stay in integers)
C9_BackoffRange ==
    \A t \in Threads :
        pc[t] = "sleep" =>
            LET b == backoff_base(DOWNSTREAM_RETRY_BASE_SECONDS, attempt[t])
            IN  /\ sleep_s[t] >= 1
                /\ 5 * sleep_s[t] >= 4 * b
                /\ 5 * sleep_s[t] <= 6 * b

\* C9 amended: the delay is a whole number of seconds and lies in
\* [max(1, floor(base*2^(a-1)*0.8)), base*2^(a-1)*1.2]
C9_BackoffFloorRange ==
    \A t \in Threads :
        pc[t] = "sleep" =>
            LET b == backoff_base(DOWNSTREAM_RETRY_BASE_SECONDS, attempt[t])
            IN  /\ sleep_s[t] >= 1
                /\ sleep_s[t] >= (4 * b) \div 5
                /\ 5 * sleep_s[t] <= 6 * b

\* a sleep after attempt 2 whose delay is below 0.8 of the nominal delay
C9_Witness ==
    \E t \in Threads :
        /\ pc[t] = "sleep"
        /\ attempt[t] = 2
        /\ 5 * sleep_s[t] < 4 * backoff_base(DOWNSTREAM_RETRY_BASE_SECONDS, 2)

\* ---------------------------------------------------------------------------
\* C10 as stated: an ack call for a payment_id that has already been
\* acknowledged (a 200 was returned for it) leaves the registry contents as
\* they are.
C10_RepeatAckNoChange ==
    [][\A t \in Threads :
          (pc[t] = "a_goc" /\ pc'[t] = "a_set" /\ acked[payment_id[t]]) =>
              ACK_EVENTS' = ACK_EVENTS]_vars

\* the ack call of thread t found the entry of its payment_id registered and set
RepeatAck(t) == pc[t] \in {"a_goc", "a_set"} /\ ev[t] # NoEvent /\ flag[ev[t]]

\* C10 amended: an ack call that finds the signal of its payment_id still
\* registered and set (no worker removed it since the earlier ack) returns 200
\* and changes neither the registry, nor any flag, nor any worker's position;
\* every ack call that carries a payment_id and passes authorization returns
\* 200; and a worker that has been woken never waits again.
C10_RepeatAckIdempotent ==
    /\ [][\A t \in Threads :
            (RepeatAck(t) /\ pc'[t] # pc[t]) =>
                /\ ACK_EVENTS' = ACK_EVENTS
                /\ flag' = flag
                /\ nEvents' = nEvents
                /\ ev'[t] = ev[t]
                /\ \A w \in Threads \ {t} : pc'[w] = pc[w]
                /\ pc'[t] = "a_done" => resp'[t] = 200]_vars
    /\ [](\A t \in Threads : (pc[t] = "a_done" /\ payment_id[t] \in Keys) => resp[t] = 200)
    /\ [][\A t \in Threads :
            pc[t] \in {"clear_ack", "ACKNOWLEDGED"} =>
                pc'[t] \in {"clear_ack", "ACKNOWLEDGED"}]_vars

\* two ack calls for one payment_id have returned 200 on the same, still registered Event
C10_Witness ==
    \E t, u \in Threads :
        /\ t # u
        /\ pc[t] = "a_done" /\ resp[t] = 200
        /\ pc[u] = "a_done" /\ resp[u] = 200
        /\ payment_id[t] = payment_id[u]
        /\ ev[t] = ev[u]
        /\ ACK_EVENTS[payment_id[t]] = ev[t]
        /\ flag[ev[t]]

\* ---------------------------------------------------------------------------
\* C11: whatever text is configured (absent, empty, non-numeric, zero,
\* negative, positive), each of the four controls is a positive integer after
\* loading, absent and invalid texts give the defaults 5, 10, 2 and 10, and a
\* worker that has terminated has sent at least one attempt.
C11_PositiveConfig ==
    /\ MAX_DOWNSTREAM >= 1
    /\ ACK_TIMEOUT_SECONDS >= 1
    /\ DOWNSTREAM_RETRY_BASE_SECONDS >= 1
    /\ DOWNSTREAM_POST_TIMEOUT_SECONDS >= 1
    /\ \A n \in EnvNames :
          (environ[n] = Unset \/ ~IntValid(environ[n])) =>
              /\ n = "MAX_DOWNSTREAM" => MAX_DOWNSTREAM = DefaultMax
              /\ n = "ACK_TIMEOUT_SECONDS" => ACK_TIMEOUT_SECONDS = DefaultAckTimeout
              /\ n = "DOWNSTREAM_RETRY_BASE_SECONDS" =>
                    DOWNSTREAM_RETRY_BASE_SECONDS = DefaultBase
              /\ n = "DOWNSTREAM_POST_TIMEOUT_SECONDS" =>
                    DOWNSTREAM_POST_TIMEOUT_SECONDS = DefaultPostTimeout
    /\ \A t \in Threads : pc[t] \in Terminal => Len(sent[t]) >= 1

\* ---------------------------------------------------------------------------
\* C12: a /proxy handler that has started the worker thread (or failed to
\* start it) can return its response in every state, whatever step the worker
\* stands at and whether or not it ever takes one; the response is 200
\* whatever state the worker is in or ends in, and returning it changes
\* nothing of any worker or of the registry.
C12_LaunchNeverBlocks ==
    /\ [](\A t \in Threads : Launched(t) => ENABLED proxy_respond(t))
    /\ [](\A t \in Threads : presp[t] \in {0, 200})
    /\ [][\A t \in Threads :
            presp'[t] # presp[t] =>
                /\ presp'[t] = 200
                /\ UNCHANGED <<pc, regvars, ev, wvars>>]_vars

\* three handlers have returned 200: one whose worker has not taken a step,
\* one whose worker ended EXHAUSTED, one whose thread did not start
C12_Witness ==
    \E t, u, v \in Threads :
        /\ presp[t] = 200 /\ pc[t] = "w_start"
        /\ presp[u] = 200 /\ pc[u] = "EXHAUSTED"
        /\ presp[v] = 200 /\ pc[v] = "no_thread"

\* ---------------------------------------------------------------------------
\* C13: every ack call ends with 200, 400 or 401, never with anything else
\* (an unhandled error is a 500), and 200 is returned only for a call that
\* carried a payment id.
C13_AckStatus ==
    \A t \in Threads :
        (pc[t] = "a_done") =>
            /\ resp[t] \in {200, 400, 401}
            /\ resp[t] = 200 => payment_id[t] \in Keys

\* ---------------------------------------------------------------------------
\* C14: the step of an ack call that is rejected with 400 or 401 changes
\* nothing but the call's own position and response: no registry entry, no
\* signal, no worker's state; and a rejected call takes no further step and
\* never holds an Event.
C14_RejectNoEffect ==
    /\ [][\A t \in Threads :
            (resp[t] = 0 /\ resp'[t] \in {400, 401}) =>
                /\ pc'[t] = "a_done"
                /\ \A w \in Threads \ {t} : pc'[w] = pc[w]
                /\ UNCHANGED <<regvars, payment_id, ev, wvars, presp, hvars>>]_vars
    /\ [](\A t \in Threads :
            resp[t] \in {400, 401} => (pc[t] = "a_done" /\ ev[t] = NoEvent))
    /\ [][\A t \in Threads :
            resp[t] \in {400, 401} => (pc'[t] = pc[t] /\ resp'[t] = resp[t])]_vars

\* a 401 and a 400 have been returned after a worker was launched that now
\* waits on its registered, unset Event
C14_Witness ==
    \E w, t, u \in Threads :
        /\ w < t /\ w < u
        /\ pc[w] = "wait" /\ ACK_EVENTS[payment_id[w]] = ev[w] /\ ~flag[ev[w]]
        /\ resp[t] = 401
        /\ resp[u] = 400

\* ---------------------------------------------------------------------------
\* C15: no step of an ack call removes or replaces a registry entry: an
\* entry that exists keeps its Event, the only entry that may appear is one
\* for the call's own payment id where there was none, the only flag that may
\* change is that of the Event the call obtained, and it changes to set.
AckStep(t) ==
    \/ pc[t] = "idle" /\ pc'[t] \in AckPcs
    \/ pc[t] \in AckPcs /\ pc'[t] # pc[t]

C15_AckOnlyAdds ==
    [][\A t \in Threads :
          AckStep(t) =>
              /\ \A k \in Keys :
                    ACK_EVENTS[k] # NoEvent => ACK_EVENTS'[k] = ACK_EVENTS[k]
              /\ \A k \in Keys :
                    ACK_EVENTS'[k] # ACK_EVENTS[k] => k = payment_id[t]
              /\ \A e \in Events :
                    flag'[e] # flag[e] => (e = ev[t] /\ flag'[e])
              /\ gen' = gen]_vars

\* an ack call has set the registered Event a worker holds, while the other
\* payment id has an entry too
C15_Witness ==
    \E t, w \in Threads :
        /\ pc[t] = "a_done" /\ resp[t] = 200
        /\ IsWorker(w) /\ HoldsEv(w) /\ ev[w] = ev[t]
        /\ ACK_EVENTS[payment_id[t]] = ev[t] /\ flag[ev[t]]
        /\ \E k \in Keys \ {payment_id[t]} : ACK_EVENTS[k] # NoEvent

\* ---------------------------------------------------------------------------
\* C16: a worker suspended in its POST, its ack wait or its backoff sleep
\* does not hold _ACK_LOCK: the lock is held only between the two halves of
\* _get_or_create_ack_event, whose holder can always take the step that
\* releases it; and whenever the lock is free every thread about to enter a
\* critical section (lookup-or-create of a worker or an ack call, removal by a
\* worker) can take its step, as can a newly arriving /proxy or /ack request.
C16_SuspendedHoldsNoLock ==
    /\ \A t \in Threads : pc[t] \in {"post", "wait", "sleep"} => ACK_LOCK # t
    /\ \A t \in Threads : ACK_LOCK = t <=> pc[t] \in {"w_goc", "a_goc"}
    /\ \A t \in Threads :
          ACK_LOCK = t => ENABLED (w_store(t) \/ ack_store(t))
    /\ \A t \in Threads :
          (ACK_LOCK = 0 /\ pc[t] \in {"w_start", "a_start", "clear_ack", "clear_ex"}) =>
              ENABLED (forward_with_ack(t) \/ ack_handler(t))
    /\ \A t \in Threads :
          SlotFree(t) =>
              /\ ENABLED proxy(t, "p1")
              /\ \E req \in AckRequests : ack_reject(req) = 0 /\ ENABLED ack(t, req)

\* an ack call is inside its critical section while one worker is in its ack
\* wait and another in its backoff sleep
C16_Witness ==
    \E w, u, t \in Threads :
        /\ pc[w] = "wait"
        /\ pc[u] = "sleep"
        /\ pc[t] = "a_goc" /\ ACK_LOCK = t

\* ---------------------------------------------------------------------------
\* C17: every step that ends a POST, raised or answered, leads to the ack
\* wait of that same attempt and differs from the step of an answered POST in
\* nothing but the error count; whatever number of its POSTs raised, a worker
\* has waited once per attempt sent, sends at most MAX_DOWNSTREAM attempts and
\* ends EXHAUSTED only after MAX_DOWNSTREAM attempts, ACKNOWLEDGED only on a
\* set Event.
C17_PostFailureIgnored ==
    /\ [][\A t \in Threads :
            (pc[t] = "post" /\ pc'[t] # "post") =>
                /\ pc'[t] = "wait"
                /\ sent' = [sent EXCEPT ![t] = Append(@, enriched(t))]
                /\ \A u \in Threads \ {t} : pc'[u] = pc[u]
                /\ UNCHANGED <<cfgvars, regvars, payment_id, ev, attempt, delivery_id,
                               sleep_s, resp, presp, acked, gen, genAt, gotSet, ackAt,
                               waited, slept, orphan>>]_vars
    /\ [](\A t \in Threads : pc[t] = "post" =>
            (ENABLED post_ok(t) /\ ENABLED post_raises_logged(t)))
    /\ [](\A t \in Threads :
            /\ errors[t] <= Len(sent[t])
            /\ Len(sent[t]) <= MAX_DOWNSTREAM
            /\ pc[t] = "wait" => waited[t] = Len(sent[t]) - 1
            /\ pc[t] \in {"sleep", "clear_ack", "clear_ex"} \cup Terminal =>
                  waited[t] = Len(sent[t])
            /\ pc[t] = "EXHAUSTED" => Len(sent[t]) = MAX_DOWNSTREAM
            /\ pc[t] = "ACKNOWLEDGED" => flag[ev[t]])

\* every POST of two workers raised; one was acknowledged after its last
\* attempt all the same, the other went through all attempts and gave up
C17_Witness ==
    \E t, u \in Threads :
        /\ MAX_DOWNSTREAM = MaxAttempts /\ MaxAttempts >= 2
        /\ pc[t] = "ACKNOWLEDGED" /\ errors[t] = MaxAttempts /\ Len(sent[t]) = MaxAttempts
        /\ pc[u] = "EXHAUSTED" /\ errors[u] = MaxAttempts /\ Len(sent[u]) = MaxAttempts

\* ---------------------------------------------------------------------------
\* C18: a backoff sleep is only ever in progress after an attempt below
\* MAX_DOWNSTREAM; the wait of attempt MAX_DOWNSTREAM is left for the removal
\* of the key, never for a sleep; the step into EXHAUSTED leaves no entry for
\* the key; and an EXHAUSTED worker has slept exactly MAX_DOWNSTREAM - 1 times.
C18_NoSleepAfterLast ==
    /\ [](\A t \in Threads :
            pc[t] = "sleep" => (attempt[t] < MAX_DOWNSTREAM /\ sleep_s[t] >= 1))
    /\ [][\A t \in Threads :
            (pc[t] = "wait" /\ pc'[t] # "wait" /\ attempt[t] = MAX_DOWNSTREAM) =>
                (pc'[t] \in {"clear_ack", "clear_ex"} /\ sleep_s'[t] = 0)]_vars
    /\ [][\A t \in Threads :
            (pc[t] = "clear_ex" /\ pc'[t] # "clear_ex") =>
                (pc'[t] = "EXHAUSTED" /\ ACK_EVENTS'[payment_id[t]] = NoEvent)]_vars
    /\ [](\A t \in Threads :
            pc[t] \in {"clear_ex", "EXHAUSTED"} =>
                (slept[t] = MAX_DOWNSTREAM - 1 /\ waited[t] = MAX_DOWNSTREAM))

\* a worker gave up after MaxAttempts attempts with MaxAttempts - 1 sleeps between them
C18_Witness ==
    \E t \in Threads :
        /\ pc[t] = "EXHAUSTED"
        /\ MAX_DOWNSTREAM = MaxAttempts /\ MaxAttempts >= 2
        /\ slept[t] = MaxAttempts - 1
        /\ waited[t] = MaxAttempts

\* ---------------------------------------------------------------------------
\* C19: a worker that is acknowledged (its wait returned True) has a
\* payment id for which an ack call has set the signal and returned 200, and
\* the step in which an ack call for another payment id sets its signal leaves
\* the worker's Event, position and attempt as they are.
C19_NoSpuriousAck ==
    /\ [](\A t \in Threads :
            pc[t] \in {"clear_ack", "ACKNOWLEDGED"} =>
                /\ acked[payment_id[t]]
                /\ \E a \in Threads :
                      pc[a] = "a_done" /\ resp[a] = 200 /\ payment_id[a] = payment_id[t])
    /\ [][\A a, w \in Threads :
            (pc[a] = "a_set" /\ pc'[a] = "a_done" /\ IsWorker(w) /\ HoldsEv(w)
                /\ payment_id[a] # payment_id[w]) =>
                    /\ flag'[ev[w]] = flag[ev[w]]
                    /\ pc'[w] = pc[w]
                    /\ attempt'[w] = attempt[w]]_vars

\* the worker of p1 was acknowledged; the worker of p2 gave up although the
\* ack for p1 had been accepted
C19_Witness ==
    \E t, u, a \in Threads :
        /\ pc[t] = "ACKNOWLEDGED" /\ payment_id[t] = "p1"
        /\ pc[u] = "EXHAUSTED" /\ payment_id[u] = "p2"
        /\ pc[a] = "a_done" /\ resp[a] = 200 /\ payment_id[a] = "p1"
        /\ u < a
        /\ ~acked["p2"]

\* ---------------------------------------------------------------------------
\* C20: the step in which an ack call sets its signal leaves every sleeping
\* worker asleep with its delay unchanged; and a worker, the only one of its
\* payment id, for which the first ack was accepted during the sleep after
\* attempt k (k < MAX_DOWNSTREAM) finishes the sleep, sends attempt k+1 and no
\* other, finds its Event set in the wait of k+1 (which cannot time out) and
\* ends ACKNOWLEDGED.
C20_AckDuringSleep ==
    /\ [][\A a, w \in Threads :
            (pc[a] = "a_set" /\ pc'[a] = "a_done" /\ pc[w] = "sleep") =>
                (pc'[w] = "sleep" /\ sleep_s'[w] = sleep_s[w] /\ attempt'[w] = attempt[w])]_vars
    /\ [](\A w \in Threads :
            ackSleep[w] # 0 =>
                /\ ackSleep[w] < MAX_DOWNSTREAM
                /\ flag[ev[w]]
                /\ pc[w] \in {"sleep", "post", "wait", "clear_ack", "ACKNOWLEDGED"}
                /\ pc[w] = "sleep" => sleep_s[w] >= 1
                /\ attempt[w] = (IF pc[w] = "sleep" THEN ackSleep[w] ELSE ackSleep[w] + 1)
                /\ slept[w] = (IF pc[w] = "sleep" THEN ackSleep[w] - 1 ELSE ackSleep[w])
                /\ Len(sent[w]) =
                      (IF pc[w] \in {"sleep", "post"} THEN ackSleep[w] ELSE ackSleep[w] + 1)
                /\ pc[w] = "wait" => (ENABLED wait_acked(w) /\ ~ENABLED wait_timeout(w)))

\* a worker acknowledged during the sleep after attempt 1 has sent attempt 2 and is ACKNOWLEDGED
C20_Witness ==
    \E w \in Threads :
        /\ ackSleep[w] = 1
        /\ pc[w] = "ACKNOWLEDGED"
        /\ Len(sent[w]) = 2
        /\ slept[w] = 1

====
